---- MODULE Spec2Model ----
(***************************************************************************)
(* Canonizer registry tooling: the registry validator (tools/validate.py)  *)
(* and the index generator (tools/generate_index.py).                      *)
(*                                                                         *)
(* Three specifications share this module:                                 *)
(*   Spec       one validate_all() run over a registry whose directory     *)
(*              entries are revealed as the traversal enumerates them;     *)
(*   SpecUnit   one call of _validate_transform on one version directory,  *)
(*              over the whole bounded universe of directory contents;     *)
(*   SpecIndex  two index builds over one registry snapshot, each with its *)
(*              own filesystem enumeration order.                          *)
(***************************************************************************)
EXTENDS Integers, Sequences, FiniteSets, TLC

VARIABLES
    pc,                    \* position of the running program
    exists,                \* top-level directories present under repo_root
    jsonata_available,     \* JSONATA_AVAILABLE
    jsonschema_available,  \* JSONSCHEMA_AVAILABLE
    errors,                \* RegistryValidator.errors
    warnings,              \* RegistryValidator.warnings
    success,               \* validate_all's local `success`
    result,                \* what validate_all returned ("none" before it returns)
    stages,                \* the stage methods entered so far, in order
    transform_ids,         \* check_transforms' local set of (id, version)
    transform_count,       \* check_transforms' local counter
    t_success,             \* check_transforms' local `success`
    calls,                 \* the calls of _validate_transform made so far
    visits,                \* the version directories the traversal has yielded
    dirs_left,             \* version-directory entries not yet enumerated
    s_success,             \* check_schemas' local `success`
    schema_count,          \* check_schemas' local counter
    files_left,            \* schema files not yet enumerated
    unit,                  \* SpecUnit: the version directory under validation
    vt,                    \* SpecUnit: outcome of _validate_transform on it
    reg_transforms,        \* SpecIndex: transform directories of the snapshot
    reg_versions,          \* SpecIndex: version directories of the snapshot
    reg_schemas,           \* SpecIndex: schema files of the snapshot
    builds                 \* SpecIndex: outcome of each index build

vars == <<pc, exists, jsonata_available, jsonschema_available, errors, warnings,
          success, result, stages, transform_ids, transform_count, t_success,
          calls, visits, dirs_left, s_success, schema_count, files_left,
          unit, vt, reg_transforms, reg_versions, reg_schemas, builds>>

(***************************************************************************)
(* Bounds of the model.                                                    *)
(***************************************************************************)
MaxUnits == 2         \* version-directory entries yielded in one traversal
MaxSchemaFiles == 1   \* schema files yielded in one check_schemas traversal
MaxMissing == 1       \* required fields absent from one metadata mapping
MaxTests == 1         \* golden test cases declared by one metadata mapping
MaxVersionDirs == 2   \* version directories in an index snapshot

(***************************************************************************)
(* Strings.  Python compares str values code point by code point; a        *)
(* string that is ordered by the program is a sequence of code points.     *)
(***************************************************************************)
Min(a, b) == IF a < b THEN a ELSE b

\* s < t for two str values
StrLess(s, t) ==
    \/ \E i \in 1..Min(Len(s), Len(t)) :
          /\ s[i] < t[i]
          /\ \A j \in 1..(i - 1) : s[j] = t[j]
    \/ /\ Len(s) < Len(t)
       /\ \A j \in 1..Len(s) : s[j] = t[j]

\* code points of the characters used below
Chr == [c \in {"-", ".", "/", "0", "1", "2", ":", "a", "b", "c", "e", "g",
               "h", "i", "j", "l", "m", "n", "o", "s", "u"} |->
          CASE c = "-" -> 45 [] c = "." -> 46 [] c = "/" -> 47
            [] c = "0" -> 48 [] c = "1" -> 49 [] c = "2" -> 50
            [] c = ":" -> 58 [] c = "a" -> 97 [] c = "b" -> 98
            [] c = "c" -> 99 [] c = "e" -> 101 [] c = "g" -> 103
            [] c = "h" -> 104 [] c = "i" -> 105 [] c = "j" -> 106
            [] c = "l" -> 108 [] c = "m" -> 109 [] c = "n" -> 110
            [] c = "o" -> 111 [] c = "s" -> 115 [] c = "u" -> 117]

\* the str whose characters are cs
RECURSIVE Str(_)
Str(cs) == IF cs = <<>> THEN <<>> ELSE <<Chr[Head(cs)]>> \o Str(Tail(cs))

(***************************************************************************)
(* Validator: errors and outcomes.                                         *)
(***************************************************************************)
\* one entry of self.errors: the message's kind, the unit it names
\* ("{expected_id}@{expected_version}"), and the values the message carries
Err(kind, where, detail) == [kind |-> kind, where |-> where, detail |-> detail]

\* meta.get(key): the value, or None
None == "None"
Get(m, key) == IF key \in DOMAIN m THEN m[key] ELSE None

\* outcome of one check: the errors it appended, whether `success` stays as it
\* was, and whether the check raised an exception instead of completing
Step(errs, ok, raised) == [errs |-> errs, ok |-> ok, raised |-> raised]

(***************************************************************************)
(* Content of one version directory.                                       *)
(***************************************************************************)
TransformIds == {"a/t", "b/t"}        \* "{category}/{transform}" directory names
DirVersions == {"1.0.0", "1.1.0"}     \* version directory names
Bytes == {"B1", "B2"}                 \* contents of spec.jsonata

\* hashlib.sha256(bytes).hexdigest(): lowercase hex; distinct contents have
\* distinct digests
Sha256Hex == [b \in Bytes |-> IF b = "B1" THEN "a3f1" ELSE "7c0e"]

\* the digests a metadata file may declare: the digest of B1 in lower and in
\* upper case, and the digest of B2
DeclaredDigests == {"a3f1", "A3F1", "7c0e"}

\* str.lower() on a declared digest
Lower == [d \in DeclaredDigests |-> IF d = "A3F1" THEN "a3f1" ELSE d]

\* a declared golden test case: which of the keys "input" and "expect" the
\* entry has, whether the named files exist, and what running it gives
\* ("pass", "mismatch": outputs differ, "error": load or evaluation raises)
TestCases ==
    {[keys |-> {"input", "expect"}, input_exists |-> ie, expect_exists |-> ee, run |-> "pass"] :
        ie \in BOOLEAN, ee \in BOOLEAN}
    \cup
    {[keys |-> {"input", "expect"}, input_exists |-> TRUE, expect_exists |-> TRUE, run |-> r] :
        r \in {"mismatch", "error"}}
    \cup
    {[keys |-> {"expect"}, input_exists |-> FALSE, expect_exists |-> TRUE, run |-> "pass"]}

TestLists == UNION {[1..n -> TestCases] : n \in 0..MaxTests}

\* the value of the "tests" key: a YAML null or a list of cases
TestsValues == {[kind |-> "null", items |-> <<>>]}
               \cup {[kind |-> "list", items |-> l] : l \in TestLists}

\* the value of the "checksum" key: a YAML null, or a mapping with or
\* without the key "jsonata_sha256"
ChecksumValues ==
    {[kind |-> "null", has_digest |-> FALSE, jsonata_sha256 |-> ""],
     [kind |-> "mapping", has_digest |-> FALSE, jsonata_sha256 |-> ""]}
    \cup {[kind |-> "mapping", has_digest |-> TRUE, jsonata_sha256 |-> d] :
            d \in DeclaredDigests}

RequiredFieldsSeq ==
    <<"id", "version", "engine", "from_schema", "to_schema", "tests",
      "checksum", "provenance", "status">>
RequiredFields == {RequiredFieldsSeq[i] : i \in DOMAIN RequiredFieldsSeq}

\* metadata mappings declaring every required field
FullMetas ==
    [id : TransformIds, version : DirVersions, engine : {"jsonata", "xslt"},
     from_schema : {"iglu:a"}, to_schema : {"iglu:b"}, tests : TestsValues,
     checksum : ChecksumValues, provenance : {"p"}, status : {"draft"}]

\* metadata mappings lacking up to MaxMissing of the required fields
MetaMappings ==
    {[f \in RequiredFields \ M |-> r[f]] :
        r \in FullMetas,
        M \in {X \in SUBSET RequiredFields : Cardinality(X) <= MaxMissing}}

\* what yaml.safe_load gives for spec.meta.yaml: a parse error, None (an
\* empty document), a scalar string, or a mapping
Metas == {[kind |-> "yamlerror", map |-> <<>>], [kind |-> "none", map |-> <<>>],
          [kind |-> "str", map |-> <<>>]}
         \cup {[kind |-> "mapping", map |-> m] : m \in MetaMappings}

NoMeta == [kind |-> "absent", map |-> <<>>]

\* a version directory: which artifacts exist and what they hold
UnitOf(hj, hm, td, b, meta) ==
    [has_jsonata |-> hj, has_meta |-> hm, tests_dir |-> td, bytes |-> b, meta |-> meta]

AllUnits ==
    {UnitOf(hj, TRUE, td, b, meta) :
        hj \in BOOLEAN, td \in BOOLEAN, b \in Bytes, meta \in Metas}
    \cup
    {UnitOf(hj, FALSE, td, b, NoMeta) : hj \in BOOLEAN, td \in BOOLEAN, b \in Bytes}

(***************************************************************************)
(* RegistryValidator._validate_transform, check by check.                  *)
(***************************************************************************)
\* RequiredFiles with the `return False` after the tests/ check left out
RequiredFilesNoTestsReturn(u, where) ==
    IF ~u.has_jsonata
    THEN Step(<<Err("Missing spec.jsonata", where, <<>>)>>, FALSE, FALSE)
    ELSE IF ~u.has_meta
    THEN Step(<<Err("Missing spec.meta.yaml", where, <<>>)>>, FALSE, FALSE)
    ELSE Step(<<>>, TRUE, FALSE)

\* the required-artifact checks: the first missing artifact is reported and
\* the method returns False
RequiredFiles(u, where) ==
    IF ~u.has_jsonata
    THEN Step(<<Err("Missing spec.jsonata", where, <<>>)>>, FALSE, FALSE)
    ELSE IF ~u.has_meta
    THEN Step(<<Err("Missing spec.meta.yaml", where, <<>>)>>, FALSE, FALSE)
    ELSE IF ~u.tests_dir
    THEN Step(<<Err("Missing tests/ directory", where, <<>>)>>, FALSE, FALSE)
    ELSE Step(<<>>, TRUE, FALSE)

\* CheckRequiredFields with "checksum" left out of required_fields
CheckRequiredFieldsWithoutChecksum(meta, where) ==
    LET required == SelectSeq(RequiredFieldsSeq, LAMBDA f : f # "checksum")
        missing ==
            IF meta.kind = "str" THEN required
            ELSE SelectSeq(required, LAMBDA f : f \notin DOMAIN meta.map)
        errs == [i \in 1..Len(missing) |->
                    Err("Missing required field", where, <<missing[i]>>)]
    IN  IF meta.kind = "none"
        THEN Step(<<>>, TRUE, TRUE)
        ELSE Step(errs, errs = <<>>, FALSE)

\* the loop over required_fields: `field not in meta` raises TypeError on
\* None, is a substring test on a scalar string (which holds no field name),
\* and a key test on a mapping
CheckRequiredFields(meta, where) ==
    LET missing ==
            IF meta.kind = "str" THEN RequiredFieldsSeq
            ELSE SelectSeq(RequiredFieldsSeq, LAMBDA f : f \notin DOMAIN meta.map)
        errs == [i \in 1..Len(missing) |->
                    Err("Missing required field", where, <<missing[i]>>)]
    IN  IF meta.kind = "none"
        THEN Step(<<>>, TRUE, TRUE)
        ELSE Step(errs, errs = <<>>, FALSE)

CheckId(m, where, expected_id) ==
    IF Get(m, "id") # expected_id
    THEN Step(<<Err("ID mismatch", where, <<expected_id, Get(m, "id")>>)>>, FALSE, FALSE)
    ELSE Step(<<>>, TRUE, FALSE)

CheckVersion(m, where, expected_version) ==
    IF Get(m, "version") # expected_version
    THEN Step(<<Err("Version mismatch", where,
                    <<expected_version, Get(m, "version")>>)>>, FALSE, FALSE)
    ELSE Step(<<>>, TRUE, FALSE)

\* CheckEngine with the assignment `success = False` left out
CheckEngineKeepsSuccess(m, where) ==
    IF Get(m, "engine") # "jsonata"
    THEN Step(<<Err("Invalid engine", where, <<>>)>>, TRUE, FALSE)
    ELSE Step(<<>>, TRUE, FALSE)

CheckEngine(m, where) ==
    IF Get(m, "engine") # "jsonata"
    THEN Step(<<Err("Invalid engine", where, <<>>)>>, FALSE, FALSE)
    ELSE Step(<<>>, TRUE, FALSE)

\* _compute_sha256 of the version directory's spec.jsonata
ComputeSha256(u) == Sha256Hex[u.bytes]

\* ChecksumDiffers with the declared digest lowercased first
ChecksumDiffersIgnoringCase(expected_checksum, actual_checksum) ==
    Lower[expected_checksum] # actual_checksum

\* expected_checksum != actual_checksum, on the two str values as they are
ChecksumDiffers(expected_checksum, actual_checksum) ==
    expected_checksum # actual_checksum

\* the checksum block: skipped when the key is absent or the mapping has no
\* digest; `in` on a null checksum raises TypeError
CheckChecksum(u, m, where) ==
    IF "checksum" \notin DOMAIN m THEN Step(<<>>, TRUE, FALSE)
    ELSE IF m.checksum.kind = "null" THEN Step(<<>>, TRUE, TRUE)
    ELSE IF ~m.checksum.has_digest THEN Step(<<>>, TRUE, FALSE)
    ELSE IF ChecksumDiffers(m.checksum.jsonata_sha256, ComputeSha256(u))
    THEN Step(<<Err("Checksum mismatch", where,
                    <<m.checksum.jsonata_sha256, ComputeSha256(u)>>)>>, FALSE, FALSE)
    ELSE Step(<<>>, TRUE, FALSE)

\* _run_golden_test: every exception inside is caught and reported
RunGoldenTest(t, where) ==
    CASE t.run = "pass" -> Step(<<>>, TRUE, FALSE)
      [] t.run = "mismatch" ->
            Step(<<Err("Golden test failed", where, <<>>),
                   Err("  Input", where, <<>>),
                   Err("  Expected", where, <<>>),
                   Err("  Actual", where, <<>>)>>, FALSE, FALSE)
      [] t.run = "error" -> Step(<<Err("Golden test error", where, <<>>)>>, FALSE, FALSE)

\* one iteration of the loop over meta["tests"]: test_spec["input"] and
\* test_spec["expect"] raise KeyError when the key is absent
GoldenCase(t, where) ==
    IF t.keys # {"input", "expect"} THEN Step(<<>>, TRUE, TRUE)
    ELSE IF ~t.input_exists
    THEN Step(<<Err("Test input not found", where, <<>>)>>, FALSE, FALSE)
    ELSE IF ~t.expect_exists
    THEN Step(<<Err("Test expected output not found", where, <<>>)>>, FALSE, FALSE)
    ELSE RunGoldenTest(t, where)

RECURSIVE GoldenLoop(_, _, _)
GoldenLoop(items, where, acc) ==
    IF items = <<>> \/ acc.raised THEN acc
    ELSE LET r == GoldenCase(Head(items), where)
         IN  GoldenLoop(Tail(items), where,
                        Step(acc.errs \o r.errs, acc.ok /\ r.ok, r.raised))

\* GoldenEnabled without the JSONATA_AVAILABLE test
GoldenEnabledAlways(m) == "tests" \in DOMAIN m

\* whether the golden-test block is entered
GoldenEnabled(m) == jsonata_available /\ "tests" \in DOMAIN m

\* the golden-test block: iterating a null `tests` raises TypeError
CheckGolden(m, where) ==
    IF ~GoldenEnabled(m) THEN Step(<<>>, TRUE, FALSE)
    ELSE IF m.tests.kind = "null" THEN Step(<<>>, TRUE, TRUE)
    ELSE GoldenLoop(m.tests.items, where, Step(<<>>, TRUE, FALSE))

\* what a call of _validate_transform does: the value returned, whether an
\* exception left the method instead, the errors appended, and the checks
\* the call reached
Outcome(ret, raised, errs, checks) ==
    [ret |-> ret, raised |-> raised, errs |-> errs, checks |-> checks]

\* ValidateMapping returning as soon as a required field is missing
ValidateMappingStopsAtFields(u, m, where, fields) ==
    LET ident == CheckId(m, where, where[1])
        vers == CheckVersion(m, where, where[2])
        eng == CheckEngine(m, where)
        sum == CheckChecksum(u, m, where)
        gold == CheckGolden(m, where)
        upto == fields.errs \o ident.errs \o vers.errs \o eng.errs \o sum.errs
        reached == {"files", "yaml", "fields", "id", "version", "engine", "checksum"}
    IN  IF ~fields.ok THEN Outcome(FALSE, FALSE, fields.errs, {"files", "yaml", "fields"})
        ELSE IF sum.raised THEN Outcome(FALSE, TRUE, upto, reached)
        ELSE Outcome(fields.ok /\ ident.ok /\ vers.ok /\ eng.ok /\ sum.ok /\ gold.ok,
                     gold.raised, upto \o gold.errs,
                     reached \cup (IF GoldenEnabled(m) THEN {"golden"} ELSE {}))

\* the checks on a parsed mapping, none short-circuiting
ValidateMapping(u, m, where, fields) ==
    LET ident == CheckId(m, where, where[1])
        vers == CheckVersion(m, where, where[2])
        eng == CheckEngine(m, where)
        sum == CheckChecksum(u, m, where)
        gold == CheckGolden(m, where)
        upto == fields.errs \o ident.errs \o vers.errs \o eng.errs \o sum.errs
        reached == {"files", "yaml", "fields", "id", "version", "engine", "checksum"}
    IN  IF sum.raised THEN Outcome(FALSE, TRUE, upto, reached)
        ELSE Outcome(fields.ok /\ ident.ok /\ vers.ok /\ eng.ok /\ sum.ok /\ gold.ok,
                     gold.raised, upto \o gold.errs,
                     reached \cup (IF GoldenEnabled(m) THEN {"golden"} ELSE {}))

ValidateTransform(u, expected_id, expected_version) ==
    LET where == <<expected_id, expected_version>>
        files == RequiredFiles(u, where)
        fields == CheckRequiredFields(u.meta, where)
    IN  IF ~files.ok THEN Outcome(FALSE, FALSE, files.errs, {"files"})
        ELSE IF u.meta.kind = "yamlerror"
        THEN Outcome(FALSE, FALSE, <<Err("Invalid YAML", where, <<>>)>>, {"files", "yaml"})
        ELSE IF fields.raised
        THEN Outcome(FALSE, TRUE, fields.errs, {"files", "yaml", "fields"})
        ELSE IF u.meta.kind # "mapping"
        THEN \* meta.get on a str raises AttributeError
             Outcome(FALSE, TRUE, fields.errs, {"files", "yaml", "fields", "id"})
        ELSE ValidateMapping(u, u.meta.map, where, fields)

NoOutcome == Outcome(FALSE, FALSE, <<>>, {})
NoUnit == UnitOf(FALSE, FALSE, FALSE, "B1", NoMeta)

(***************************************************************************)
(* SpecUnit: _validate_transform on one version directory.                 *)
(***************************************************************************)
UnitDir == <<"a/t", "1.0.0">>

IdleValidator ==
    /\ exists = {} /\ jsonschema_available = FALSE /\ warnings = <<>>
    /\ success = TRUE /\ result = "none" /\ stages = <<>>
    /\ transform_ids = {} /\ transform_count = 0 /\ t_success = TRUE
    /\ calls = <<>> /\ visits = <<>> /\ dirs_left = 0
    /\ s_success = TRUE /\ schema_count = 0 /\ files_left = 0

IdleIndex ==
    /\ reg_transforms = {} /\ reg_versions = {} /\ reg_schemas = {}
    /\ builds = <<>>

InitUnit ==
    /\ pc = "unit"
    /\ unit \in AllUnits
    /\ jsonata_available \in BOOLEAN
    /\ errors = <<>>
    /\ vt = NoOutcome
    /\ IdleValidator /\ IdleIndex

UnitValidate ==
    /\ pc = "unit"
    /\ vt' = ValidateTransform(unit, UnitDir[1], UnitDir[2])
    /\ errors' = errors \o vt'.errs
    /\ pc' = IF vt'.raised THEN "raised" ELSE "returned"
    /\ UNCHANGED <<exists, jsonata_available, jsonschema_available, warnings,
                   success, result, stages, transform_ids, transform_count,
                   t_success, calls, visits, dirs_left, s_success, schema_count,
                   files_left, unit, reg_transforms, reg_versions, reg_schemas,
                   builds>>

NextUnit == UnitValidate

SpecUnit == InitUnit /\ [][NextUnit]_vars

(***************************************************************************)
(* Spec: one run of RegistryValidator.validate_all.                        *)
(***************************************************************************)
RequiredDirsSeq == <<"transforms", "schemas", "tools", ".github/workflows">>
RequiredDirs == {RequiredDirsSeq[i] : i \in DOMAIN RequiredDirsSeq}

\* a metadata mapping that passes every check in the directory (id, version)
\* whose spec.jsonata holds B1
GoodMapping(id, version) ==
    [id |-> id, version |-> version, engine |-> "jsonata",
     from_schema |-> "iglu:a", to_schema |-> "iglu:b",
     tests |-> [kind |-> "list", items |-> <<>>],
     checksum |-> [kind |-> "mapping", has_digest |-> TRUE, jsonata_sha256 |-> "a3f1"],
     provenance |-> "p", status |-> "draft"]

InputMissingCase ==
    [keys |-> {"input", "expect"}, input_exists |-> FALSE, expect_exists |-> TRUE,
     run |-> "pass"]

MismatchCase ==
    [keys |-> {"input", "expect"}, input_exists |-> TRUE, expect_exists |-> TRUE,
     run |-> "mismatch"]

\* a test entry without the key "input"
NoInputKeyCase ==
    [keys |-> {"expect"}, input_exists |-> FALSE, expect_exists |-> TRUE,
     run |-> "pass"]

\* a test whose files exist and whose loading or evaluation raises
ErrorCase ==
    [keys |-> {"input", "expect"}, input_exists |-> TRUE, expect_exists |-> TRUE,
     run |-> "error"]

MappingUnit(b, m) == UnitOf(TRUE, TRUE, TRUE, b, [kind |-> "mapping", map |-> m])

\* the version directories a traversal of Spec may meet at (id, version):
\* a valid one, and ones with one thing wrong
RunUnits(id, version) ==
    LET good == GoodMapping(id, version)
    IN  {MappingUnit("B1", good),
         UnitOf(FALSE, TRUE, TRUE, "B1", [kind |-> "mapping", map |-> good]),
         UnitOf(TRUE, FALSE, TRUE, "B1", NoMeta),
         UnitOf(TRUE, TRUE, FALSE, "B1", [kind |-> "none", map |-> <<>>]),
         UnitOf(TRUE, TRUE, TRUE, "B1", [kind |-> "none", map |-> <<>>]),
         MappingUnit("B1", [good EXCEPT !.engine = "xslt"]),
         MappingUnit("B2", good),
         MappingUnit("B1", [good EXCEPT !.tests.items = <<InputMissingCase>>]),
         MappingUnit("B1", [good EXCEPT !.tests.items = <<MismatchCase>>]),
         UnitOf(TRUE, TRUE, TRUE, "B1", [kind |-> "yamlerror", map |-> <<>>]),
         UnitOf(TRUE, TRUE, TRUE, "B1", [kind |-> "str", map |-> <<>>]),
         MappingUnit("B1", [good EXCEPT !.checksum =
                               [kind |-> "null", has_digest |-> FALSE,
                                jsonata_sha256 |-> ""]]),
         MappingUnit("B1", [good EXCEPT !.tests.items = <<NoInputKeyCase>>]),
         MappingUnit("B1", [good EXCEPT !.tests.items = <<ErrorCase>>])}

\* the (id, version) pairs the directory names of a traversal yield
RunDirs == {<<"a/t", "1.0.0">>, <<"a/t", "1.1.0">>}

\* what a schema file holds: text that is not JSON, a JSON value that is no
\* object, an object without "$schema", a well-formed schema, or an object
\* the Draft 7 meta-schema rejects
SchemaKinds == {"badjson", "nonobject", "noschema", "ok", "invalid"}

Init ==
    /\ pc = "check_structure"
    /\ exists \in SUBSET RequiredDirs
    /\ jsonata_available \in BOOLEAN
    /\ jsonschema_available \in BOOLEAN
    /\ errors = <<>> /\ warnings = <<>>
    /\ success = TRUE /\ result = "none" /\ stages = <<>>
    /\ transform_ids = {} /\ transform_count = 0 /\ t_success = TRUE
    /\ calls = <<>> /\ visits = <<>>
    /\ dirs_left \in (IF "transforms" \in exists THEN 0..MaxUnits ELSE {0})
    /\ s_success = TRUE /\ schema_count = 0
    /\ files_left \in (IF "schemas" \in exists THEN 0..MaxSchemaFiles ELSE {0})
    /\ unit = NoUnit /\ vt = NoOutcome
    /\ IdleIndex

\* the required directories that do not exist, in the order they are checked
MissingDirs == SelectSeq(RequiredDirsSeq, LAMBDA d : d \notin exists)

\* AfterStructure returning from validate_all when check_structure failed
AfterStructureGated(ret) == IF ret THEN "check_transforms" ELSE "report"

\* where validate_all goes once check_structure has returned `ret`
AfterStructure(ret) == "check_transforms"

\* validate_all: success &= self.check_structure()
CheckStructure ==
    /\ pc = "check_structure"
    /\ stages' = Append(stages, "check_structure")
    /\ IF MissingDirs # <<>>
       THEN /\ errors' = Append(errors,
                           Err("Missing required directory", <<Head(MissingDirs)>>, <<>>))
            /\ success' = (success /\ FALSE)
            /\ pc' = AfterStructure(FALSE)
       ELSE /\ errors' = errors
            /\ success' = (success /\ TRUE)
            /\ pc' = AfterStructure(TRUE)
    /\ UNCHANGED <<exists, jsonata_available, jsonschema_available, warnings,
                   result, transform_ids, transform_count, t_success, calls,
                   visits, dirs_left, s_success, schema_count, files_left,
                   unit, vt, reg_transforms, reg_versions, reg_schemas, builds>>

\* check_transforms up to its traversal: the directory test and the locals
CheckTransformsBegin ==
    /\ pc = "check_transforms"
    /\ stages' = Append(stages, "check_transforms")
    /\ IF "transforms" \notin exists
       THEN /\ errors' = Append(errors,
                           Err("Transforms directory not found", <<"transforms">>, <<>>))
            /\ success' = (success /\ FALSE)
            /\ pc' = "check_schemas"
       ELSE /\ errors' = errors
            /\ success' = success
            /\ pc' = "traverse"
    /\ transform_ids' = {} /\ transform_count' = 0 /\ t_success' = TRUE
    /\ UNCHANGED <<exists, jsonata_available, jsonschema_available, warnings,
                   result, calls, visits, dirs_left, s_success, schema_count,
                   files_left, unit, vt, reg_transforms, reg_versions,
                   reg_schemas, builds>>

\* an entry that is not a directory, or whose name starts with ".": continue
SkipEntry ==
    /\ pc = "traverse" /\ dirs_left > 0
    /\ dirs_left' = dirs_left - 1
    /\ UNCHANGED <<pc, exists, jsonata_available, jsonschema_available, errors,
                   warnings, success, result, stages, transform_ids,
                   transform_count, t_success, calls, visits, s_success,
                   schema_count, files_left, unit, vt, reg_transforms,
                   reg_versions, reg_schemas, builds>>

\* whether the loop body treats (id, version) as a repeat
IsDuplicate(id, version) == <<id, version>> \in transform_ids

\* VisitDuplicate with the assignment `success = False` left out
VisitDuplicateKeepsSuccess(id, version) ==
    /\ errors' = Append(errors, Err("Duplicate transform", <<id, version>>, <<>>))
    /\ UNCHANGED <<pc, transform_ids, transform_count, calls, unit, vt, t_success>>

\* the loop body for a repeated (id, version)
VisitDuplicate(id, version) ==
    /\ errors' = Append(errors, Err("Duplicate transform", <<id, version>>, <<>>))
    /\ t_success' = FALSE
    /\ UNCHANGED <<pc, transform_ids, transform_count, calls, unit, vt>>

\* the loop body for a new (id, version): record it, validate it, count it
VisitNew(id, version, u) ==
    LET out == ValidateTransform(u, id, version)
    IN  /\ transform_ids' = transform_ids \cup {<<id, version>>}
        /\ calls' = Append(calls, [id |-> id, version |-> version, unit |-> u, out |-> out])
        /\ unit' = u /\ vt' = out
        /\ errors' = errors \o out.errs
        /\ IF out.raised
           THEN /\ pc' = "raised"
                /\ UNCHANGED <<t_success, transform_count>>
           ELSE /\ pc' = pc
                /\ t_success' = (IF out.ret THEN t_success ELSE FALSE)
                /\ transform_count' = (IF out.ret THEN transform_count + 1
                                                  ELSE transform_count)

\* one iteration of the innermost loop of check_transforms
VisitVersion ==
    /\ pc = "traverse" /\ dirs_left > 0
    /\ \E d \in RunDirs : \E u \in RunUnits(d[1], d[2]) :
          /\ visits' = Append(visits, d)
          /\ IF IsDuplicate(d[1], d[2])
             THEN VisitDuplicate(d[1], d[2])
             ELSE VisitNew(d[1], d[2], u)
    /\ dirs_left' = dirs_left - 1
    /\ UNCHANGED <<exists, jsonata_available, jsonschema_available, warnings,
                   success, result, stages, s_success, schema_count, files_left,
                   reg_transforms, reg_versions, reg_schemas, builds>>

\* the traversal is exhausted: check_transforms returns its `success`
CheckTransformsEnd ==
    /\ pc = "traverse" /\ dirs_left = 0
    /\ success' = (success /\ t_success)
    /\ pc' = "check_schemas"
    /\ UNCHANGED <<exists, jsonata_available, jsonschema_available, errors,
                   warnings, result, stages, transform_ids, transform_count,
                   t_success, calls, visits, dirs_left, s_success, schema_count,
                   files_left, unit, vt, reg_transforms, reg_versions,
                   reg_schemas, builds>>

\* check_schemas up to its traversal: a missing schemas directory is a
\* warning and the method returns True
CheckSchemasBegin ==
    /\ pc = "check_schemas"
    /\ stages' = Append(stages, "check_schemas")
    /\ IF "schemas" \notin exists
       THEN /\ warnings' = Append(warnings,
                             Err("Schemas directory not found", <<"schemas">>, <<>>))
            /\ success' = (success /\ TRUE)
            /\ pc' = "report"
       ELSE /\ warnings' = warnings
            /\ success' = success
            /\ pc' = "schemas"
    /\ s_success' = TRUE /\ schema_count' = 0
    /\ UNCHANGED <<exists, jsonata_available, jsonschema_available, errors,
                   result, transform_ids, transform_count, t_success, calls,
                   visits, dirs_left, files_left, unit, vt, reg_transforms,
                   reg_versions, reg_schemas, builds>>

\* _validate_schema on a file holding `kind`.  With jsonschema missing, the
\* name JSONSchemaValidationError is unbound, so matching any exception
\* against the first except clause raises NameError out of the method.
ValidateSchema(kind, file) ==
    CASE kind = "badjson" ->
            IF jsonschema_available
            THEN [ret |-> FALSE, raised |-> FALSE, warns |-> <<>>,
                  errs |-> <<Err("Error validating schema", file, <<>>)>>]
            ELSE [ret |-> FALSE, raised |-> TRUE, warns |-> <<>>, errs |-> <<>>]
      [] kind = "nonobject" ->
            [ret |-> FALSE, raised |-> FALSE, warns |-> <<>>,
             errs |-> <<Err("Schema must be a JSON object", file, <<>>)>>]
      [] kind = "noschema" ->
            [ret |-> TRUE, raised |-> FALSE, errs |-> <<>>,
             warns |-> <<Err("Missing $schema field (recommended)", file, <<>>)>>]
      [] kind = "ok" ->
            [ret |-> TRUE, raised |-> FALSE, warns |-> <<>>, errs |-> <<>>]
      [] kind = "invalid" ->
            IF jsonschema_available
            THEN [ret |-> FALSE, raised |-> FALSE, warns |-> <<>>,
                  errs |-> <<Err("Error validating schema", file, <<>>)>>]
            ELSE [ret |-> TRUE, raised |-> FALSE, warns |-> <<>>, errs |-> <<>>]

\* one iteration of the loop over jsonschema_dir.glob("*.json")
VisitSchema ==
    /\ pc = "schemas" /\ files_left > 0
    /\ \E kind \in SchemaKinds :
          LET out == ValidateSchema(kind, <<"schema", files_left>>)
          IN  /\ errors' = errors \o out.errs
              /\ warnings' = warnings \o out.warns
              /\ IF out.raised
                 THEN /\ pc' = "raised"
                      /\ UNCHANGED <<s_success, schema_count>>
                 ELSE /\ pc' = pc
                      /\ s_success' = (IF out.ret THEN s_success ELSE FALSE)
                      /\ schema_count' = (IF out.ret THEN schema_count + 1
                                                     ELSE schema_count)
    /\ files_left' = files_left - 1
    /\ UNCHANGED <<exists, jsonata_available, jsonschema_available, success,
                   result, stages, transform_ids, transform_count, t_success,
                   calls, visits, dirs_left, unit, vt, reg_transforms,
                   reg_versions, reg_schemas, builds>>

\* the traversal is exhausted: check_schemas returns its `success`
CheckSchemasEnd ==
    /\ pc = "schemas" /\ files_left = 0
    /\ success' = (success /\ s_success)
    /\ pc' = "report"
    /\ UNCHANGED <<exists, jsonata_available, jsonschema_available, errors,
                   warnings, result, stages, transform_ids, transform_count,
                   t_success, calls, visits, dirs_left, s_success, schema_count,
                   files_left, unit, vt, reg_transforms, reg_versions,
                   reg_schemas, builds>>

\* validate_all prints the banner and returns `success`
Report ==
    /\ pc = "report"
    /\ result' = (IF success THEN "True" ELSE "False")
    /\ pc' = "done"
    /\ UNCHANGED <<exists, jsonata_available, jsonschema_available, errors,
                   warnings, success, stages, transform_ids, transform_count,
                   t_success, calls, visits, dirs_left, s_success, schema_count,
                   files_left, unit, vt, reg_transforms, reg_versions,
                   reg_schemas, builds>>

Next ==
    \/ CheckStructure
    \/ CheckTransformsBegin
    \/ SkipEntry
    \/ VisitVersion
    \/ CheckTransformsEnd
    \/ CheckSchemasBegin
    \/ VisitSchema
    \/ CheckSchemasEnd
    \/ Report

Spec == Init /\ [][Next]_vars

(***************************************************************************)
(* Properties of a validate_all run (Spec).                                *)
(***************************************************************************)
\* the entries of an error list that have the given kind
OfKind(errs, kind) == {i \in DOMAIN errs : errs[i].kind = kind}
Count(errs, kind) == Cardinality(OfKind(errs, kind))

\* C1: when validate_all has returned, its result is true if and only if the
\* error list is empty, whatever the warning list holds.
C1_ResultIffNoErrors ==
    pc = "done" => (result = "True" <=> errors = <<>>)

C1_Witness ==
    pc = "done" /\ result = "True" /\ warnings # <<>> /\ calls # <<>>

\* the version directory lacks one of the three required artifacts
LacksArtifact(u) == ~u.has_jsonata \/ ~u.has_meta \/ ~u.tests_dir

\* the message naming the first artifact a version directory lacks
FirstMissing(u) ==
    IF ~u.has_jsonata THEN "Missing spec.jsonata"
    ELSE IF ~u.has_meta THEN "Missing spec.meta.yaml"
    ELSE "Missing tests/ directory"

\* check_transforms has returned to validate_all
TransformsReturned == pc \in {"check_schemas", "schemas", "report", "done"}

\* C2: a call of _validate_transform on a version directory lacking
\* spec.jsonata, spec.meta.yaml or tests/ returns false after appending
\* exactly one error, naming the first missing artifact, and reaches no later
\* check; the traversal goes on, and returns only when every entry of the
\* enumeration has been processed.
C2_MissingArtifactShortCircuits ==
    /\ \A i \in DOMAIN calls :
          LacksArtifact(calls[i].unit) =>
             /\ calls[i].out.ret = FALSE
             /\ ~calls[i].out.raised
             /\ calls[i].out.errs =
                   <<Err(FirstMissing(calls[i].unit),
                         <<calls[i].id, calls[i].version>>, <<>>)>>
             /\ calls[i].out.checks = {"files"}
    /\ (pc = "traverse" /\ calls # <<>> /\ LacksArtifact(calls[Len(calls)].unit)
          /\ dirs_left > 0) => ENABLED VisitVersion
    /\ TransformsReturned => dirs_left = 0

C2_Witness ==
    /\ Len(calls) = 2
    /\ LacksArtifact(calls[1].unit)
    /\ calls[1].unit.meta.kind = "none"
    /\ calls[2].out.ret

\* how many times the traversal has yielded the pair d
Occurrences(d) == Cardinality({i \in DOMAIN visits : visits[i] = d})

\* the 'Duplicate transform' errors naming the pair d
DuplicateErrors(d) ==
    Cardinality({i \in OfKind(errors, "Duplicate transform") : errors[i].where = d})

SomeRepeat == \E d \in RunDirs : Occurrences(d) > 1

\* C3: in one check_transforms traversal every occurrence of an (id, version)
\* pair after the first appends exactly one 'Duplicate transform' error, is
\* not passed to _validate_transform and is not counted as validated, and
\* check_transforms then returns false.
C3_DuplicateSkipped ==
    /\ \A d \in RunDirs :
          /\ DuplicateErrors(d) = (IF Occurrences(d) > 1 THEN Occurrences(d) - 1 ELSE 0)
          /\ Cardinality({i \in DOMAIN calls : <<calls[i].id, calls[i].version>> = d}) =
                (IF Occurrences(d) > 0 THEN 1 ELSE 0)
    /\ pc # "raised" =>
          transform_count = Cardinality({i \in DOMAIN calls : calls[i].out.ret})
    /\ SomeRepeat => ~t_success
    /\ (SomeRepeat /\ TransformsReturned) => ~success

C3_Witness ==
    /\ pc = "done" /\ result = "False"
    /\ SomeRepeat /\ transform_count = 1
    /\ Count(errors, "Duplicate transform") = 1 /\ Len(errors) = 1

AllStages == <<"check_structure", "check_transforms", "check_schemas">>

Malformed(u) ==
    /\ u.has_jsonata /\ u.has_meta /\ u.tests_dir
    /\ \/ u.meta.kind \in {"none", "str"}
       \/ /\ u.meta.kind = "mapping"
          /\ \/ Get(u.meta.map, "checksum").kind = "null"
             \/ Get(u.meta.map, "tests").kind = "null"
             \/ \E i \in DOMAIN Get(u.meta.map, "tests").items :
                   Get(u.meta.map, "tests").items[i].keys # {"input", "expect"}

\* the errors of the run that name the unit (id, version)
ErrorsOf(id, version) ==
    SelectSeq(errors, LAMBDA e : e.where = <<id, version>>)

\* C11 as claimed: no exception leaves check_structure, check_transforms or
\* check_schemas, whatever the registry holds; every call of
\* _validate_transform returns, and a call on a version directory with
\* malformed content returns False with an entry of the error list naming it.
C11_NoRawException ==
    /\ pc # "raised"
    /\ \A i \in DOMAIN calls :
          /\ ~calls[i].out.raised
          /\ Malformed(calls[i].unit) =>
                /\ calls[i].out.ret = FALSE
                /\ ErrorsOf(calls[i].id, calls[i].version) # <<>>

(***************************************************************************)
(* Properties of one _validate_transform call (SpecUnit).                  *)
(***************************************************************************)
\* the call has acted: it returned or an exception left it
Called == pc \in {"returned", "raised"}

\* the version directory has its three artifacts and its metadata parses to
\* a mapping, so the field, identity, engine and checksum checks run
ReachesChecks(u) == ~LacksArtifact(u) /\ u.meta.kind = "mapping"

\* every declared golden test case names existing files and passes
TestsPass(tests) ==
    /\ tests.kind = "list"
    /\ \A i \in DOMAIN tests.items :
          /\ tests.items[i].keys = {"input", "expect"}
          /\ tests.items[i].input_exists /\ tests.items[i].expect_exists
          /\ tests.items[i].run = "pass"

\* the unit passes every check that does not concern the checksum block
ValidApartFromChecksum(u) ==
    /\ ReachesChecks(u)
    /\ RequiredFields \ {"checksum"} \subseteq DOMAIN u.meta.map
    /\ u.meta.map.id = UnitDir[1] /\ u.meta.map.version = UnitDir[2]
    /\ u.meta.map.engine = "jsonata"
    /\ TestsPass(u.meta.map.tests)

NoChecksumBlock(u) == ReachesChecks(u) /\ "checksum" \notin DOMAIN u.meta.map

\* C4 as claimed: a version without a checksum block that is valid in every
\* other respect produces no error and passes.
C4_AbsentChecksumTolerated ==
    (Called /\ NoChecksumBlock(unit) /\ ValidApartFromChecksum(unit)) =>
       (pc = "returned" /\ vt.ret /\ vt.errs = <<>>)

\* C4: a version whose metadata has no checksum block fails: exactly one
\* 'Missing required field: checksum' error is appended and no 'Checksum
\* mismatch' error (the comparison is skipped); a version valid in every other
\* respect gets that one error only.  What passes without error is a checksum
\* block that declares no jsonata_sha256 digest.
C4_AbsentChecksumIsMissingField ==
    /\ (Called /\ NoChecksumBlock(unit)) =>
          /\ Cardinality({i \in OfKind(vt.errs, "Missing required field") :
                            vt.errs[i].detail = <<"checksum">>}) = 1
          /\ Count(vt.errs, "Checksum mismatch") = 0
          /\ pc = "returned" => ~vt.ret
    /\ (Called /\ NoChecksumBlock(unit) /\ ValidApartFromChecksum(unit)) =>
          /\ pc = "returned" /\ ~vt.ret
          /\ vt.errs = <<Err("Missing required field", UnitDir, <<"checksum">>)>>
    /\ (Called /\ ValidApartFromChecksum(unit) /\ ~NoChecksumBlock(unit)
          /\ unit.meta.map.checksum.kind = "mapping"
          /\ ~unit.meta.map.checksum.has_digest) =>
          (pc = "returned" /\ vt.ret /\ vt.errs = <<>>)

C4_Witness ==
    /\ pc = "returned" /\ NoChecksumBlock(unit) /\ ValidApartFromChecksum(unit)
    /\ Len(unit.meta.map.tests.items) > 0 /\ jsonata_available
    /\ Len(vt.errs) = 1

\* the metadata declares a digest, and the checksum comparison is reached
DeclaresDigest(u) ==
    /\ ReachesChecks(u) /\ "checksum" \in DOMAIN u.meta.map
    /\ u.meta.map.checksum.has_digest

Declared(u) == u.meta.map.checksum.jsonata_sha256

\* exactly one 'Checksum mismatch' error, carrying the declared and the
\* actual digest, and the unit fails
OneMismatch ==
    /\ Count(vt.errs, "Checksum mismatch") = 1
    /\ \A i \in OfKind(vt.errs, "Checksum mismatch") :
          vt.errs[i].detail = <<Declared(unit), Sha256Hex[unit.bytes]>>
    /\ pc = "returned" => ~vt.ret

\* C5 as claimed: the digests are compared as lowercase hex strings, so a
\* declared digest that is the SHA-256 of the file's bytes adds no error
\* however its hex digits are cased, and any other adds exactly one.
C5_ComparedAsLowercase ==
    (Called /\ DeclaresDigest(unit)) =>
       IF Lower[Declared(unit)] = Sha256Hex[unit.bytes]
       THEN Count(vt.errs, "Checksum mismatch") = 0
       ELSE OneMismatch

\* C5: the declared digest is compared verbatim with the lowercase hex
\* digest of the file's bytes: it adds no error when the two strings are
\* equal, and otherwise (other bytes, or the same digest spelled in another
\* case) adds exactly one 'Checksum mismatch' error carrying both digests,
\* and the unit fails.
C5_ComparedVerbatim ==
    (Called /\ DeclaresDigest(unit)) =>
       IF Declared(unit) = Sha256Hex[unit.bytes]
       THEN Count(vt.errs, "Checksum mismatch") = 0
       ELSE OneMismatch

C5_Witness ==
    /\ pc = "returned" /\ DeclaresDigest(unit)
    /\ Declared(unit) = "a3f1" /\ unit.bytes = "B2"
    /\ vt.errs = <<Err("Checksum mismatch", UnitDir, <<"a3f1", "7c0e">>)>>

\* the metadata's test list, and its cases whose input / expect file is absent
Cases(u) == u.meta.map.tests.items
InputAbsent(u) ==
    {i \in DOMAIN Cases(u) : "input" \in Cases(u)[i].keys /\ ~Cases(u)[i].input_exists}
ExpectAbsent(u) ==
    {i \in DOMAIN Cases(u) : "expect" \in Cases(u)[i].keys /\ ~Cases(u)[i].expect_exists}

\* the metadata declares a golden test case one of whose files does not exist
DeclaresAbsentFile(u) ==
    /\ ReachesChecks(u) /\ "tests" \in DOMAIN u.meta.map
    /\ u.meta.map.tests.kind = "list"
    /\ InputAbsent(u) \cup ExpectAbsent(u) # {}

GoldenKinds ==
    {"Test input not found", "Test expected output not found",
     "Golden test failed", "Golden test error"}

\* C6 as claimed: a declared case with an absent file makes the version fail
\* with an error for that case, for either value of JSONATA_AVAILABLE.
C6_AbsentFileAlwaysFails ==
    (pc = "returned" /\ DeclaresAbsentFile(unit)) =>
       /\ ~vt.ret
       /\ Count(vt.errs, "Test input not found")
            + Count(vt.errs, "Test expected output not found") >= 1

\* C6: with JSONATA_AVAILABLE true, a declared case with an absent file makes
\* the version fail, with one error per such case (naming the input when it is
\* absent, else the expected output); with JSONATA_AVAILABLE false the
\* golden-test block is not entered and no error is appended for any case.
C6_AbsentFileFailsWhenAvailable ==
    /\ (pc = "returned" /\ DeclaresAbsentFile(unit) /\ jsonata_available) =>
          /\ ~vt.ret
          /\ Count(vt.errs, "Test input not found") = Cardinality(InputAbsent(unit))
          /\ Count(vt.errs, "Test expected output not found") =
                Cardinality(ExpectAbsent(unit) \ InputAbsent(unit))
    /\ (Called /\ ~jsonata_available) =>
          /\ \A k \in GoldenKinds : Count(vt.errs, k) = 0
          /\ "golden" \notin vt.checks

C6_Witness ==
    /\ pc = "returned" /\ jsonata_available /\ DeclaresAbsentFile(unit)
    /\ ValidApartFromChecksum([unit EXCEPT !.meta.map.tests.items = <<>>])
    /\ Count(vt.errs, "Test expected output not found") = 1

\* the errors of one kind, with the values they carry
Details(kind) == {vt.errs[i].detail : i \in OfKind(vt.errs, kind)}

\* C7: for a version whose metadata parses to a mapping, exactly one 'Invalid
\* engine' error is appended when the declared engine is not "jsonata" and
\* none otherwise; likewise one id-mismatch error exactly when the declared id
\* differs from the directory's, and one version-mismatch error exactly when
\* the declared version differs from the directory name; each whatever the
\* other checks on the unit find, and a unit with any of them does not pass.
C7_IdentityChecksIndependent ==
    (Called /\ ReachesChecks(unit)) =>
       LET m == unit.meta.map
           badId == Get(m, "id") # UnitDir[1]
           badVersion == Get(m, "version") # UnitDir[2]
           badEngine == Get(m, "engine") # "jsonata"
       IN  /\ Count(vt.errs, "Invalid engine") = (IF badEngine THEN 1 ELSE 0)
           /\ Count(vt.errs, "ID mismatch") = (IF badId THEN 1 ELSE 0)
           /\ Count(vt.errs, "Version mismatch") = (IF badVersion THEN 1 ELSE 0)
           /\ Details("ID mismatch") \subseteq {<<UnitDir[1], Get(m, "id")>>}
           /\ Details("Version mismatch") \subseteq {<<UnitDir[2], Get(m, "version")>>}
           /\ (pc = "returned" /\ (badId \/ badVersion \/ badEngine)) => ~vt.ret

C7_Witness ==
    /\ pc = "returned" /\ ReachesChecks(unit)
    /\ Get(unit.meta.map, "engine") = "xslt"
    /\ Get(unit.meta.map, "id") = UnitDir[1]
    /\ Get(unit.meta.map, "version") = None
    /\ Count(vt.errs, "Invalid engine") = 1
    /\ Count(vt.errs, "Checksum mismatch") = 1
    /\ Count(vt.errs, "Golden test failed") = 1

(***************************************************************************)
(* SpecIndex: IndexGenerator.generate over a registry snapshot.            *)
(***************************************************************************)
V100 == Str(<<"1", ".", "0", ".", "0">>)
V200 == Str(<<"2", ".", "0", ".", "0">>)
V1000 == Str(<<"1", "0", ".", "0", ".", "0">>)
VersionStrs == {V100, V200, V1000}

\* "{category}/{transform}" of the transform directories a snapshot may hold
IndexIds == {Str(<<"a", "/", "a">>), Str(<<"b", "/", "a">>)}

\* what _read_transform_meta finds in a version directory: no spec.meta.yaml,
\* a file whose reading raises (bad YAML, an empty document, a provenance
\* that is no mapping), a mapping without "version", or a mapping declaring one
IndexMetas ==
    {[kind |-> k, version |-> <<>>] : k \in {"missing", "unreadable", "noversion"}}
    \cup {[kind |-> "mapping", version |-> v] : v \in VersionStrs}

\* the subsets of S with at most k elements
RECURSIVE SubsetsUpTo(_, _)
SubsetsUpTo(S, k) ==
    IF k = 0 THEN {{}}
    ELSE LET smaller == SubsetsUpTo(S, k - 1)
         IN  smaller \cup {T \cup {x} : T \in smaller, x \in S}

\* the sets of version directories a snapshot with transform directories
\* ids may hold: distinct paths transforms/<id>/<dir>/, each with its metadata
Snapshots(ids) ==
    UNION {{{[id |-> d[1], dir |-> d[2], meta |-> mu[d]] : d \in D} :
               mu \in [D -> IndexMetas]} :
           D \in SubsetsUpTo(ids \X VersionStrs, MaxVersionDirs)}

\* the schema files a snapshot may hold: schemas/<vendor>/<name>/jsonschema/<stem>.json
SchemaFiles ==
    {[vendor |-> Str(<<"a">>), name |-> Str(<<"a">>), stem |-> Str(<<"1", "-", "0", "-", "0">>)],
     [vendor |-> Str(<<"a", "-", "b">>), name |-> Str(<<"a">>),
      stem |-> Str(<<"1", "-", "0", "-", "0">>)]}

\* the sequences that list every element of S once: the orders in which
\* iterdir() and glob() may yield the entries S
Orders(S) ==
    {o \in [1..Cardinality(S) -> S] : \A i, j \in 1..Cardinality(S) : o[i] = o[j] => i = j}

\* the version directories of transform id
VersionsOf(id) == {vd \in reg_versions : vd.id = id}

\* _read_transform_meta: None, or the version entry (the projected fields
\* that play no part in grouping and ordering are left out)
Unread == [read |-> FALSE, has_version |-> FALSE, version |-> <<>>, path |-> <<>>]
ReadTransformMeta(vd) ==
    IF vd.meta.kind \in {"missing", "unreadable"} THEN Unread
    ELSE [read |-> TRUE, has_version |-> vd.meta.kind = "mapping",
          version |-> vd.meta.version, path |-> <<vd.id, vd.dir>>]

\* VersionBefore without reverse=True
VersionBeforeAscending(a, b) == StrLess(a.version, b.version)

\* a comes before b under key=version, reverse=True
VersionBefore(a, b) == StrLess(b.version, a.version)

\* list.sort(key=..., reverse=True) is stable: entries with equal keys keep
\* the order they had; `before` decides the rest
SortVersions(vs) ==
    LET rank(i) == 1 + Cardinality({j \in DOMAIN vs :
                        \/ VersionBefore(vs[j], vs[i])
                        \/ vs[j].version = vs[i].version /\ j < i})
    IN  [p \in DOMAIN vs |-> vs[CHOOSE i \in DOMAIN vs : rank(i) = p]]

\* comparing the keys raises TypeError when one of them is None
SortRaises(vs) == Len(vs) >= 2 /\ \E i \in DOMAIN vs : ~vs[i].has_version

\* sorted(all_transforms.items()): by transform id, which is unique
SortIds(ids) ==
    LET rank(id) == 1 + Cardinality({other \in ids : StrLess(other, id)})
    IN  [p \in 1..Cardinality(ids) |-> CHOOSE id \in ids : rank(id) = p]

\* all_transforms[id] after the traversal that yields id's version
\* directories in the order ov
Collected(ov) ==
    LET entries == [i \in DOMAIN ov |-> ReadTransformMeta(ov[i])]
    IN  SelectSeq(entries, LAMBDA e : e.read)

\* _collect_transforms under the enumeration that yields the version
\* directories of each id in the order ov[id]
CollectTransforms(ov) ==
    LET ids == SortIds(reg_transforms)
    IN  [raised |-> \E id \in reg_transforms : SortRaises(Collected(ov[id])),
         list |-> [p \in DOMAIN ids |->
                     [id |-> ids[p],
                      versions |-> IF SortRaises(Collected(ov[ids[p]]))
                                   THEN <<>>
                                   ELSE SortVersions(Collected(ov[ids[p]]))]]]

\* f"iglu:{vendor}/{name}/jsonschema/{stem}"
IgluPrefix == Str(<<"i", "g", "l", "u", ":">>)
Slash == Str(<<"/">>)
JsonschemaPart == Str(<<"/", "j", "s", "o", "n", "s", "c", "h", "e", "m", "a", "/">>)
Uri(f) == IgluPrefix \o f.vendor \o Slash \o f.name \o JsonschemaPart \o f.stem

\* sorted(schemas, key=uri): stable, ascending
SortSchemas(ss) ==
    LET rank(i) == 1 + Cardinality({j \in DOMAIN ss :
                        \/ StrLess(ss[j].uri, ss[i].uri)
                        \/ ss[j].uri = ss[i].uri /\ j < i})
    IN  [p \in DOMAIN ss |-> ss[CHOOSE i \in DOMAIN ss : rank(i) = p]]

\* _collect_schemas under the enumeration os of the schema files
CollectSchemas(os) ==
    SortSchemas([i \in DOMAIN os |-> [uri |-> Uri(os[i]), path |-> os[i]]])

InitIndex ==
    /\ pc = "index"
    /\ reg_transforms \in SUBSET IndexIds
    /\ reg_versions \in Snapshots(reg_transforms)
    /\ reg_schemas \in SUBSET SchemaFiles
    /\ builds = <<>>
    /\ jsonata_available = FALSE /\ errors = <<>>
    /\ unit = NoUnit /\ vt = NoOutcome
    /\ IdleValidator

\* an enumeration of the version directories lists those of one transform
\* directory together: they come from one iterdir() of that directory
Nested(o) ==
    \A i, j, k \in DOMAIN o : (i < k /\ k < j /\ o[i].id = o[j].id) => o[k].id = o[i].id

\* the order in which the enumeration o yields the version directories of id
OrderOf(o, id) == SelectSeq(o, LAMBDA vd : vd.id = id)

\* one run of generate(): the filesystem picks the order in which each
\* directory's entries are yielded; the clock has advanced since the last run
Generate ==
    /\ pc = "index" /\ Len(builds) < 2
    /\ \E o \in Orders(reg_versions), os \in Orders(reg_schemas) :
          /\ Nested(o)
          /\ LET t == CollectTransforms([id \in reg_transforms |-> OrderOf(o, id)])
             IN  builds' = Append(builds,
                     [raised |-> t.raised,
                      generated_at |-> Len(builds) + 1,
                      transforms |-> IF t.raised THEN <<>> ELSE t.list,
                      schemas |-> IF t.raised THEN <<>> ELSE CollectSchemas(os)])
    /\ UNCHANGED <<pc, exists, jsonata_available, jsonschema_available, errors,
                   warnings, success, result, stages, transform_ids,
                   transform_count, t_success, calls, visits, dirs_left,
                   s_success, schema_count, files_left, unit, vt,
                   reg_transforms, reg_versions, reg_schemas>>

NextIndex == Generate

SpecIndex == InitIndex /\ [][NextIndex]_vars

(***************************************************************************)
(* Properties of the index builds (SpecIndex).                             *)
(***************************************************************************)
\* C8: two builds over one snapshot give the same transforms and schemas
\* arrays, whatever order the filesystem enumerates the directories in.
C8_BuildsAgree ==
    Len(builds) = 2 =>
       /\ builds[1].raised = builds[2].raised
       /\ builds[1].transforms = builds[2].transforms
       /\ builds[1].schemas = builds[2].schemas

\* the version directories of id whose metadata _read_transform_meta reads
Readable(id) == {vd \in VersionsOf(id) : vd.meta.kind \in {"noversion", "mapping"}}

====
